---- MODULE Spec2Model ----
(***************************************************************************)
(* kmz2geotiff.py: batch conversion of KMZ ground overlays to GeoTIFF.     *)
(* The state is the file system the script works on (the script folder,    *)
(* "Converted GeoTIFFs", its _temp tree, the log file) and the process     *)
(* state of one run of main() (the three result lists, the loop position,  *)
(* the status lines printed).                                              *)
(***************************************************************************)
EXTENDS Integers, Sequences, FiniteSets, TLC

\* ------------------------------------------------------------------ bounds
\* number of runs of the script that are explored
MaxRuns == 2
\* number of calls of gdal.Translate, gdal.Warp and os.remove that raise
MaxFaults == 1

\* ------------------------------------------------------- names and strings
\* A file name is <<stem, extension>>: os.path.splitext of the name.
ScriptFile == <<"kmz2geotiff", ".py">>
KmzFiles == {<<"a", ".kmz">>, <<"a", ".KMZ">>, <<"B", ".kmz">>}
DirFiles == KmzFiles \cup {ScriptFile}

\* str.lower() on the extensions that occur
Lower(s) ==
  CASE s = ".KMZ" -> ".kmz"
    [] s = ".KML" -> ".kml"
    [] OTHER -> s

\* os.path.splitext(os.path.basename(kmz_path))[0]
Base(f) == f[1]

Bases == {Base(f) : f \in KmzFiles}

\* code point of the (one character) base names: Python orders str by code point
CodePoint(s) ==
  CASE s = "B" -> 66
    [] s = "a" -> 97
    [] OTHER -> 0

\* float(): the numerals that occur in coordinate fields; anything else raises
Numerals == {"0", "1", "2", "3", "6", "7", "8"}
Float(s) ==
  CASE s = "0" -> 0
    [] s = "1" -> 1
    [] s = "2" -> 2
    [] s = "3" -> 3
    [] s = "6" -> 6
    [] s = "7" -> 7
    [] s = "8" -> 8
    [] OTHER -> 0

\* ------------------------------------------------------- archive contents
DocKml == <<"doc", ".kml">>
MapKml == <<"Map", ".KML">>
ImgPng == <<"img", ".png">>
PicPng == <<"pic", ".png">>

\* the coordinates text, split on whitespace and each token on commas
Quad4 == << <<"1", "8", "0">>, <<"2", "8", "0">>, <<"2", "7", "0">>, <<"1", "7", "0">> >>
Quad4b == << <<"3", "6">>, <<"6", "6">>, <<"6", "2">>, <<"3", "2">> >>
Quad3 == << <<"1", "8", "0">>, <<"2", "8", "0">>, <<"2", "7", "0">> >>
Quad5 == << <<"1", "8", "0">>, <<"2", "8", "0">>, <<"2", "7", "0">>, <<"1", "7", "0">>, <<"1", "8", "0">> >>
QuadBad == << <<"1", "8", "0">>, <<"x", "8", "0">>, <<"2", "7", "0">>, <<"1", "7", "0">> >>
QuadShort == << <<"1", "8">>, <<"2">>, <<"2", "7">>, <<"1", "7">> >>

Desc(wf, hasQuad, quad, overlay, href) ==
  [wellformed |-> wf, hasQuad |-> hasQuad, quad |-> quad, overlay |-> overlay, href |-> href]

Image(ok, w, h) == [decodable |-> ok, width |-> w, height |-> h]

Archive(valid, kml, desc, img, image) ==
  [valid |-> valid, kml |-> kml, desc |-> desc, img |-> img, image |-> image]

GoodDesc == Desc(TRUE, TRUE, Quad4, "href", ImgPng)
NoImage == Image(FALSE, 0, 0)

\* the kinds of file that the script folder can hold
Kinds ==
  {"absent", "corrupt", "nokml", "malformed", "noquad", "three", "five",
   "badfloat", "short", "nooverlay", "nohref", "noimage", "undecodable",
   "good", "good2"}

\* the archives explored: every kind for a.kmz, beside it an archive of the
\* same base name and one of another base name
KindsOf(f) ==
  CASE f = <<"a", ".kmz">> -> Kinds
    [] f = <<"a", ".KMZ">> -> {"absent", "good2", "noimage"}
    [] OTHER -> {"absent", "good"}

Content(k) ==
  CASE k = "corrupt" -> Archive(FALSE, {}, GoodDesc, {}, NoImage)
    [] k = "nokml" -> Archive(TRUE, {}, GoodDesc, {ImgPng}, Image(TRUE, 2, 3))
    [] k = "malformed" -> Archive(TRUE, {DocKml}, Desc(FALSE, FALSE, <<>>, "none", ImgPng), {ImgPng}, Image(TRUE, 2, 3))
    [] k = "noquad" -> Archive(TRUE, {DocKml}, Desc(TRUE, FALSE, <<>>, "href", ImgPng), {ImgPng}, Image(TRUE, 2, 3))
    [] k = "three" -> Archive(TRUE, {DocKml}, Desc(TRUE, TRUE, Quad3, "href", ImgPng), {ImgPng}, Image(TRUE, 2, 3))
    [] k = "five" -> Archive(TRUE, {DocKml}, Desc(TRUE, TRUE, Quad5, "href", ImgPng), {ImgPng}, Image(TRUE, 2, 3))
    [] k = "badfloat" -> Archive(TRUE, {DocKml}, Desc(TRUE, TRUE, QuadBad, "href", ImgPng), {ImgPng}, Image(TRUE, 2, 3))
    [] k = "short" -> Archive(TRUE, {DocKml}, Desc(TRUE, TRUE, QuadShort, "href", ImgPng), {ImgPng}, Image(TRUE, 2, 3))
    [] k = "nooverlay" -> Archive(TRUE, {DocKml}, Desc(TRUE, TRUE, Quad4, "none", ImgPng), {ImgPng}, Image(TRUE, 2, 3))
    [] k = "nohref" -> Archive(TRUE, {DocKml}, Desc(TRUE, TRUE, Quad4, "nohref", ImgPng), {ImgPng}, Image(TRUE, 2, 3))
    [] k = "noimage" -> Archive(TRUE, {DocKml}, Desc(TRUE, TRUE, Quad4, "href", PicPng), {}, NoImage)
    [] k = "undecodable" -> Archive(TRUE, {DocKml}, GoodDesc, {ImgPng}, NoImage)
    [] k = "good" -> Archive(TRUE, {DocKml}, GoodDesc, {ImgPng}, Image(TRUE, 2, 3))
    [] k = "good2" -> Archive(TRUE, {MapKml}, Desc(TRUE, TRUE, Quad4b, "href", PicPng), {PicPng}, Image(TRUE, 5, 4))
    [] OTHER -> Archive(FALSE, {}, GoodDesc, {}, NoImage)

\* ------------------------------------------------------------------ state
VARIABLES
  kmz,            \* the script folder: kind of each *.kmz file ("absent": no such file)
  out_files,      \* <base>.tif files of the output folder
  gcp_files,      \* <base>_with_gcps.tif files of the output folder
  temp_dirs,      \* existing directories _temp/<base>
  temp_files,     \* files below the _temp/<base> directories
  log,            \* lines of conversion_log.txt
  pc,             \* position of the process: "idle", "loop", "exited"
  runs,           \* number of runs of the script started so far (the clock of the log)
  kmz_files,      \* main: the list of archives found
  idx,            \* main: position of the for loop in kmz_files
  success_list,
  failed_list,
  skipped_list,
  console,        \* the status printed for each convert_kmz call of this run
  faults          \* calls of gdal.Translate, gdal.Warp, os.remove that raised so far

vars ==
  <<kmz, out_files, gcp_files, temp_dirs, temp_files, log, pc, runs, kmz_files, idx,
    success_list, failed_list, skipped_list, console, faults>>

fs == <<out_files, gcp_files, temp_dirs, temp_files>>

\* --------------------------------------------------------- file predicates
\* a skip check that never finds the output
OutputExists_Never(base) == FALSE

\* os.path.exists(out_tif)
OutputExists(base) == \E t \in out_files : t.base = base

IntermediateExists(base) == \E t \in gcp_files : t.base = base

\* the entries of directory _temp/<base>
DirOf(files, base) == {e \in files : e.base = base}

\* z.extractall(tmp_dir): every member is written, replacing a file of the same name
Members(f) == Content(kmz[f]).kml \cup Content(kmz[f]).img
ExtractAll(files, f) ==
  {e \in files : ~(e.base = Base(f) /\ e.name \in Members(f))}
    \cup {[base |-> Base(f), name |-> m, origin |-> f] : m \in Members(f)}

\* [f for f in os.listdir(tmp_dir) if f.lower().endswith(".kml")]
KmlFiles(files, base) == {e \in DirOf(files, base) : Lower(e.name[2]) = ".kml"}

\* the descriptor stored in a file of the working directory
DescOf(e) == Content(kmz[e.origin]).desc
ImageOf(e) == Content(kmz[e.origin]).image

\* ------------------------------------------------------ descriptor parsing
\* every field of every token is a float literal
AllNumeric(quad) ==
  \A i \in 1..Len(quad) : \A j \in 1..Len(quad[i]) : quad[i][j] \in Numerals

\* coords = [tuple(map(float, c.split(","))) for c in text.strip().split()]
Coords(quad) == [i \in 1..Len(quad) |-> [j \in 1..Len(quad[i]) |-> Float(quad[i][j])]]

\* ---------------------------------------------------- rectification engine
GCP(x, y, z, pixel, line) == [x |-> x, y |-> y, z |-> z, pixel |-> pixel, line |-> line]

\* the gcps list with the image's width and height exchanged
BuildGCPs_Swapped(coords, width, height) ==
  << GCP(coords[1][1], coords[1][2], 0, 0, width),
     GCP(coords[2][1], coords[2][2], 0, height, width),
     GCP(coords[3][1], coords[3][2], 0, height, 0),
     GCP(coords[4][1], coords[4][2], 0, 0, 0) >>

\* the gcps list: coords are 1-based here, corner n of the source is coords[n+1]
BuildGCPs(coords, width, height) ==
  << GCP(coords[1][1], coords[1][2], 0, 0, height),
     GCP(coords[2][1], coords[2][2], 0, width, height),
     GCP(coords[3][1], coords[3][2], 0, width, 0),
     GCP(coords[4][1], coords[4][2], 0, 0, 0) >>

\* coords[n][1] exists for the four tuples that the gcps list reads
TuplesIndexable(coords) == \A i \in 1..4 : Len(coords[i]) >= 2

\* ------------------------------------------------------- one conversion
\* What the environment decides for a call of gdal.Translate / gdal.Warp: it
\* returns ("ok"), raises leaving no file ("fail"), or raises leaving a partly
\* written file ("partial"); os.remove returns ("ok") or raises ("fail").
GdalOutcomes == {"ok", "fail", "partial"}
RemoveOutcomes == {"ok", "fail"}

NoPick == [base |-> "", name |-> <<"", "">>, origin |-> <<"", "">>]

\* The context of a convert_kmz call past the skip check: the archive, the
\* environment's decisions, the file system as changed so far, the library
\* calls made so far, the descriptor chosen and the control points built.
Context(f, pick, tr, wp, rm) ==
  [f |-> f, base |-> Base(f), pick |-> pick, tr |-> tr, wp |-> wp, rm |-> rm,
   temp_dirs |-> temp_dirs, temp_files |-> temp_files,
   gcp_files |-> gcp_files, out_files |-> out_files,
   calls |-> <<>>, kml |-> {}, gcps |-> <<>>]

Outcome(c, status, reason) ==
  [status |-> status, reason |-> reason, calls |-> c.calls,
   temp_dirs |-> c.temp_dirs, temp_files |-> c.temp_files,
   gcp_files |-> c.gcp_files, out_files |-> c.out_files,
   kml |-> c.kml, gcps |-> c.gcps]

\* an exception raised inside the try block: control goes to the except clause
Raise(c, reason) == Outcome(c, "failed", reason)

Called(c, name) == [c EXCEPT !.calls = Append(@, name)]

\* os.remove(tmp_tif); success_list.append(base)
CleanupStage(c) ==
  LET c1 == Called(c, "remove") IN
  IF c.rm = "fail" THEN Raise(c1, "OSError")
  ELSE Outcome([c1 EXCEPT !.gcp_files = {t \in @ : t.base # c.base}], "success", "")

\* gdal.Warp(out_tif, tmp_tif, dstSRS="EPSG:4326", tps=True, ...)
WarpStage(c) ==
  LET c1 == Called(c, "Warp")
      tif(done) == [base |-> c.base, gcps |-> c.gcps, complete |-> done]
  IN CASE c.wp = "fail" -> Raise(c1, "Warp failed")
       [] c.wp = "partial" ->
            Raise([c1 EXCEPT !.out_files = @ \cup {tif(FALSE)}], "Warp failed")
       [] OTHER -> CleanupStage([c1 EXCEPT !.out_files = @ \cup {tif(TRUE)}])

\* gdal.Translate(tmp_tif, ds, GCPs=gcps, outputSRS="EPSG:4326")
TranslateStage(c) ==
  LET c1 == Called(c, "Translate")
      tif(done) == [base |-> c.base, gcps |-> c.gcps, complete |-> done]
      written(done) == {t \in c.gcp_files : t.base # c.base} \cup {tif(done)}
  IN CASE c.tr = "fail" -> Raise(c1, "Translate failed")
       [] c.tr = "partial" ->
            Raise([c1 EXCEPT !.gcp_files = written(FALSE)], "Translate failed")
       [] OTHER -> WarpStage([c1 EXCEPT !.gcp_files = written(TRUE)])

\* ds = gdal.Open(img_file); width, height; the gcps list.  With
\* gdal.UseExceptions() an image that cannot be decoded makes gdal.Open raise
\* RuntimeError, so that the "ds is None" branch is never taken.
RectifyStage(c) ==
  LET desc == DescOf(c.pick)
      img == CHOOSE e \in DirOf(c.temp_files, c.base) : e.name = desc.href
      c1 == Called(c, "Open")
      coords == Coords(desc.quad)
  IN IF ~ImageOf(img).decodable THEN Raise(c1, "RuntimeError")
     ELSE IF ~TuplesIndexable(coords) THEN Raise(c1, "IndexError")
     ELSE TranslateStage(
            [c1 EXCEPT !.gcps = BuildGCPs(coords, ImageOf(img).width, ImageOf(img).height)])

\* the parse with the raster opened before the descriptor is validated
ParseStage_OpenFirst(c) ==
  LET desc == DescOf(c.pick)
      c1 == Called(Called([c EXCEPT !.kml = {c.pick}], "parse"), "Open")
  IN IF ~desc.wellformed THEN Raise(c1, "ParseError")
     ELSE IF ~desc.hasQuad THEN Raise(c1, "No LatLonQuad found")
     ELSE IF ~AllNumeric(desc.quad) THEN Raise(c1, "ValueError")
     ELSE IF Len(Coords(desc.quad)) # 4 THEN Raise(c1, "LatLonQuad does not have 4 points")
     ELSE IF desc.overlay # "href" THEN Raise(c1, "AttributeError")
     ELSE IF ~\E e \in DirOf(c.temp_files, c.base) : e.name = desc.href
       THEN Raise(c1, "Image file not found")
     ELSE RectifyStage(c1)

\* the parse without the check that the quad element was found
ParseStage_NoQuadCheck(c) ==
  LET desc == DescOf(c.pick)
      c1 == Called([c EXCEPT !.kml = {c.pick}], "parse")
  IN IF ~desc.wellformed THEN Raise(c1, "ParseError")
     ELSE IF ~AllNumeric(desc.quad) THEN Raise(c1, "ValueError")
     ELSE IF Len(Coords(desc.quad)) # 4 THEN Raise(c1, "LatLonQuad does not have 4 points")
     ELSE IF desc.overlay # "href" THEN Raise(c1, "AttributeError")
     ELSE IF ~\E e \in DirOf(c.temp_files, c.base) : e.name = desc.href
       THEN Raise(c1, "Image file not found")
     ELSE RectifyStage(c1)

\* ET.parse(kml_path) up to the os.path.exists(img_file) check
ParseStage(c) ==
  LET desc == DescOf(c.pick)
      c1 == Called([c EXCEPT !.kml = {c.pick}], "parse")
  IN IF ~desc.wellformed THEN Raise(c1, "ParseError")
     ELSE IF ~desc.hasQuad THEN Raise(c1, "No LatLonQuad found")
     ELSE IF ~AllNumeric(desc.quad) THEN Raise(c1, "ValueError")
     ELSE IF Len(Coords(desc.quad)) # 4 THEN Raise(c1, "LatLonQuad does not have 4 points")
     ELSE IF desc.overlay # "href" THEN Raise(c1, "AttributeError")
     ELSE IF ~\E e \in DirOf(c.temp_files, c.base) : e.name = desc.href
       THEN Raise(c1, "Image file not found")
     ELSE RectifyStage(c1)

\* kml_files = [...]; kml_path = os.path.join(tmp_dir, kml_files[0])
FindKmlStage(c) ==
  LET c1 == Called(c, "listdir") IN
  IF KmlFiles(c.temp_files, c.base) = {} THEN Raise(c1, "No KML found")
  ELSE ParseStage(c1)

\* os.makedirs(tmp_dir, exist_ok=True); zipfile.ZipFile(kmz_path).extractall(tmp_dir)
ExtractStage(c) ==
  LET c1 == Called([c EXCEPT !.temp_dirs = @ \cup {c.base}], "extractall") IN
  IF ~Content(kmz[c.f]).valid THEN Raise(c1, "BadZipFile")
  ELSE FindKmlStage([c1 EXCEPT !.temp_files = ExtractAll(@, c.f)])

\* the try block of convert_kmz
Conversion(f, pick, tr, wp, rm) == ExtractStage(Context(f, pick, tr, wp, rm))

\* kml_files[0]: os.listdir lists in arbitrary order, so any *.kml of the directory
Picks(f) ==
  LET kmls == KmlFiles(ExtractAll(temp_files, f), Base(f)) IN
  IF Content(kmz[f]).valid /\ kmls # {} THEN kmls ELSE {NoPick}

\* The environment decides the outcome of a call only if the call is made.
Reaches(f, pick, tr, wp, name) ==
  LET calls == Conversion(f, pick, tr, wp, "ok").calls
  IN \E i \in 1..Len(calls) : calls[i] = name

TranslateOutcomes(f, pick) ==
  IF Reaches(f, pick, "ok", "ok", "Translate") /\ faults < MaxFaults THEN GdalOutcomes ELSE {"ok"}
WarpOutcomes(f, pick, tr) ==
  IF Reaches(f, pick, tr, "ok", "Warp") /\ faults < MaxFaults THEN GdalOutcomes ELSE {"ok"}
CleanupOutcomes(f, pick, tr, wp) ==
  IF Reaches(f, pick, tr, wp, "remove") /\ faults < MaxFaults THEN RemoveOutcomes ELSE {"ok"}

\* the status printed for one convert_kmz call, with the calls that were made
Status(f, r) ==
  [file |-> f, base |-> Base(f), status |-> r.status, reason |-> r.reason,
   calls |-> r.calls, kml |-> r.kml, gcps |-> r.gcps,
   dir |-> IF r.calls = <<>> THEN {} ELSE DirOf(r.temp_files, Base(f)),
   had_gcp_file |-> IntermediateExists(Base(f))]

SkippedOutcome == [status |-> "skipped", reason |-> "", calls |-> <<>>, kml |-> {}, gcps |-> <<>>,
                   temp_files |-> {}]

\* an except clause that does not record the archive
RecordFailure_Dropped(list, base) == list

\* failed_list.append(base) in the except clause
RecordFailure(list, base) == Append(list, base)

\* convert_kmz(kmz_path), called by the for loop of main
ConvertKmz ==
  /\ pc = "loop"
  /\ idx <= Len(kmz_files)
  /\ LET f == kmz_files[idx]
         base == Base(f)
     IN IF OutputExists(base)
        THEN /\ skipped_list' = Append(skipped_list, base)
             /\ console' = Append(console, Status(f, SkippedOutcome))
             /\ UNCHANGED <<fs, success_list, failed_list, faults>>
        ELSE \E pick \in Picks(f) :
             \E tr \in TranslateOutcomes(f, pick) :
             \E wp \in WarpOutcomes(f, pick, tr) :
             \E rm \in CleanupOutcomes(f, pick, tr, wp) :
               LET r == Conversion(f, pick, tr, wp, rm) IN
               /\ temp_dirs' = r.temp_dirs
               /\ temp_files' = r.temp_files
               /\ gcp_files' = r.gcp_files
               /\ out_files' = r.out_files
               /\ console' = Append(console, Status(f, r))
               /\ IF r.status = "success"
                  THEN /\ success_list' = Append(success_list, base)
                       /\ UNCHANGED failed_list
                  ELSE /\ failed_list' = RecordFailure(failed_list, base)
                       /\ UNCHANGED success_list
               /\ faults' = IF <<tr, wp, rm>> = <<"ok", "ok", "ok">> THEN faults ELSE faults + 1
               /\ UNCHANGED skipped_list
  /\ idx' = idx + 1
  /\ UNCHANGED <<kmz, log, pc, runs, kmz_files>>

\* ------------------------------------------------------------------- log
Blank == [kind |-> "blank", text |-> "", ts |-> 0]
Header(ts) == [kind |-> "header", text |-> "--- Conversion on", ts |-> ts]
Name(n) == [kind |-> "name", text |-> n, ts |-> 0]

\* set(success_list)
SetOf(list) == {list[i] : i \in 1..Len(list)}

\* sorted(): ascending by code point
RECURSIVE Sorted(_)
Sorted(S) ==
  IF S = {} THEN <<>>
  ELSE LET m == CHOOSE x \in S : \A y \in S : CodePoint(x) <= CodePoint(y)
       IN <<m>> \o Sorted(S \ {m})

\* the names in the order of conversion
SortedNames_Unsorted(list) == list

\* sorted_names = sorted(set(success_list))
SortedNames(list) == Sorted(SetOf(list))

\* the section written by one call: "\n--- Conversion on <ts> ---\n", the names, "\n"
Section(names, ts) ==
  <<Blank, Header(ts)>> \o [i \in 1..Len(names) |-> Name(names[i])] \o <<Blank>>

\* open(LOG_FILE, "a"): what is written goes after the present content
OpenAppend(old, written) == old \o written

LogSuccessfulConversions(old, list, ts) ==
  IF list = <<>> THEN old
  ELSE OpenAppend(old, Section(SortedNames(list), ts))

\* ------------------------------------------------------------------ main
Present(f) == IF f \in KmzFiles THEN kmz[f] # "absent" ELSE TRUE

\* [f for f in os.listdir(SCRIPT_DIR) if f.lower().endswith(".kmz")]
Found == {f \in DirFiles : Present(f) /\ Lower(f[2]) = ".kmz"}

\* the orders in which os.listdir can give the files of S
Orders(S) ==
  {s \in [1..Cardinality(S) -> S] : \A i, j \in 1..Cardinality(S) : s[i] = s[j] => i = j}

NewProcess ==
  /\ pc \in {"idle", "exited"}
  /\ runs < MaxRuns
  /\ runs' = runs + 1
  /\ success_list' = <<>>
  /\ failed_list' = <<>>
  /\ skipped_list' = <<>>
  /\ console' = <<>>

\* main: no KMZ files found, return
MainNoFiles ==
  /\ NewProcess
  /\ Found = {}
  /\ pc' = "exited"
  /\ kmz_files' = <<>>
  /\ idx' = 1
  /\ UNCHANGED <<kmz, fs, log, faults>>

\* main: the list of archives, entering the for loop
MainBegin ==
  /\ NewProcess
  /\ Found # {}
  /\ \E order \in Orders(Found) : kmz_files' = order
  /\ idx' = 1
  /\ pc' = "loop"
  /\ UNCHANGED <<kmz, fs, log, faults>>

\* main after the loop: the summary and log_successful_conversions()
MainFinish ==
  /\ pc = "loop"
  /\ idx > Len(kmz_files)
  /\ log' = LogSuccessfulConversions(log, success_list, runs)
  /\ pc' = "exited"
  /\ UNCHANGED <<kmz, fs, runs, kmz_files, idx, success_list, failed_list, skipped_list, console, faults>>

\* --------------------------------------------------------- specification
\* a fresh installation: no output yet, any archives in the script folder
Init ==
  /\ kmz \in [KmzFiles -> Kinds]
  /\ \A f \in KmzFiles : kmz[f] \in KindsOf(f)
  /\ out_files = {}
  /\ gcp_files = {}
  /\ temp_dirs = {}
  /\ temp_files = {}
  /\ log = <<>>
  /\ pc = "idle"
  /\ runs = 0
  /\ kmz_files = <<>>
  /\ idx = 1
  /\ success_list = <<>>
  /\ failed_list = <<>>
  /\ skipped_list = <<>>
  /\ console = <<>>
  /\ faults = 0

Next == MainNoFiles \/ MainBegin \/ ConvertKmz \/ MainFinish

Spec == Init /\ [][Next]_vars

\* ================================================================ claims
Has(calls, name) == \E i \in 1..Len(calls) : calls[i] = name

\* the status of the convert_kmz call that returned last in this run
Last == console[Len(console)]

\* a convert_kmz call is about to be made for file kmz_files[idx]
Calling == pc = "loop" /\ idx <= Len(kmz_files)

Count(list, b) == Cardinality({i \in 1..Len(list) : list[i] = b})

\* ---------------------------------------------------------------- C1
\* C1: a convert_kmz call for an archive whose <base>.tif exists appends the
\* base name to skipped_list and to no other list, calls none of extractall,
\* parse, Translate, Warp, and leaves every file as it is.
C1_SkipIsNoOp ==
  [][(Calling /\ \E t \in out_files : t.base = Base(kmz_files[idx]))
       => /\ skipped_list' = Append(skipped_list, Base(kmz_files[idx]))
          /\ success_list' = success_list
          /\ failed_list' = failed_list
          /\ out_files' = out_files
          /\ gcp_files' = gcp_files
          /\ temp_dirs' = temp_dirs
          /\ temp_files' = temp_files
          /\ log' = log
          /\ console'[Len(console')].status = "skipped"
          /\ console'[Len(console')].calls = <<>>]_vars

\* a second run has skipped an archive that the first run converted
C1_Witness ==
  /\ runs = 2
  /\ console # <<>>
  /\ Last.status = "skipped"
  /\ Last.calls = <<>>
  /\ skipped_list # <<>>

\* ---------------------------------------------------------------- C2
\* C2: when the loop of main has ended, convert_kmz was called once for every
\* archive found, whatever failed, and every call left exactly one entry in
\* exactly one of success_list, skipped_list, failed_list.
C2_EveryArchiveRecordedOnce ==
  (pc = "loop" /\ idx > Len(kmz_files)) =>
    /\ Len(console) = Len(kmz_files)
    /\ {kmz_files[i] : i \in 1..Len(kmz_files)} = {f \in KmzFiles : kmz[f] # "absent"}
    /\ \A i \in 1..Len(console) : console[i].file = kmz_files[i]
    /\ Len(success_list) + Len(skipped_list) + Len(failed_list) = Len(kmz_files)
    /\ \A b \in Bases :
         /\ Count(success_list, b)
              = Cardinality({i \in 1..Len(console) : console[i].base = b /\ console[i].status = "success"})
         /\ Count(skipped_list, b)
              = Cardinality({i \in 1..Len(console) : console[i].base = b /\ console[i].status = "skipped"})
         /\ Count(failed_list, b)
              = Cardinality({i \in 1..Len(console) : console[i].base = b /\ console[i].status = "failed"})

\* a loop over three archives has ended with one success, one skip, one failure
C2_Witness ==
  /\ pc = "loop"
  /\ idx > Len(kmz_files)
  /\ Len(kmz_files) = 3
  /\ Len(success_list) = 1
  /\ Len(skipped_list) = 1
  /\ Len(failed_list) = 1

\* ---------------------------------------------------------------- C3
\* the image that a conversion opened: the file of its directory that the
\* descriptor it parsed refers to
OpenedImage(s) ==
  LET d == DescOf(CHOOSE k \in s.kml : TRUE)
  IN ImageOf(CHOOSE e \in s.dir : e.name = d.href)

CornerQuad(s) == DescOf(CHOOSE k \in s.kml : TRUE).quad

\* C3: every conversion that reaches gdal.Translate has built exactly 4 control
\* points, with pixel coordinates (0,H), (W,H), (W,0), (0,0) for corners 0..3
\* of the quad and geoX = lon, geoY = lat, geoZ = 0.
C3_ControlPoints ==
  \A i \in 1..Len(console) :
    Has(console[i].calls, "Translate") =>
      LET s == console[i]
          W == OpenedImage(s).width
          H == OpenedImage(s).height
          q == CornerQuad(s)
          px == <<0, W, W, 0>>
          ln == <<H, H, 0, 0>>
      IN /\ Len(s.gcps) = 4
         /\ \A n \in 1..4 :
              /\ s.gcps[n].pixel = px[n]
              /\ s.gcps[n].line = ln[n]
              /\ s.gcps[n].x = Float(q[n][1])
              /\ s.gcps[n].y = Float(q[n][2])
              /\ s.gcps[n].z = 0

\* a conversion of a 2 x 3 image has reached gdal.Translate
C3_Witness ==
  \E i \in 1..Len(console) :
    /\ Has(console[i].calls, "Translate")
    /\ OpenedImage(console[i]).width = 2
    /\ OpenedImage(console[i]).height = 3
    /\ Len(console[i].gcps) = 4

\* ---------------------------------------------------------------- C4
\* C4: after a conversion that created <base>_with_gcps.tif and ended in
\* success or in a failure raised by gdal.Warp, the intermediate file does not
\* exist.
C4_IntermediateRemoved ==
  (console # <<>> /\ ((Has(Last.calls, "Warp") /\ ~Has(Last.calls, "remove"))
                        \/ Last.status = "success"))
    => ~\E t \in gcp_files : t.base = Last.base

\* ---------------------------------------------------------------- C5
\* C5: after a conversion that extracted its archive, the working directory
\* _temp/<base> and the files extracted into it do not exist.
C5_WorkingAreaDestroyed ==
  (console # <<>> /\ Has(Last.calls, "listdir"))
    => /\ Last.base \notin temp_dirs
       /\ ~\E e \in temp_files : e.base = Last.base

\* ---------------------------------------------------------------- C6
\* the descriptor that a conversion parsed passed every check before the
\* count of the coordinate tuples
CountChecked(s) ==
  /\ s.kml # {}
  /\ LET d == DescOf(CHOOSE k \in s.kml : TRUE)
     IN d.wellformed /\ d.hasQuad /\ AllNumeric(d.quad)

NoRasterWork(s) ==
  ~Has(s.calls, "Open") /\ ~Has(s.calls, "Translate") /\ ~Has(s.calls, "Warp")

\* C6: a conversion whose descriptor has a number of coordinate tuples other
\* than 4 fails with "LatLonQuad does not have 4 points", one whose image
\* reference names no file of the working directory fails with "Image file not
\* found"; both are recorded as failed without gdal.Open, gdal.Translate or
\* gdal.Warp having been called.
C6_ValidationBeforeRaster ==
  \A i \in 1..Len(console) :
    LET s == console[i] IN
    CountChecked(s) =>
      LET d == DescOf(CHOOSE k \in s.kml : TRUE) IN
      /\ Len(d.quad) # 4 =>
           /\ s.status = "failed"
           /\ s.reason = "LatLonQuad does not have 4 points"
           /\ NoRasterWork(s)
           /\ Count(failed_list, s.base) >= 1
      /\ (Len(d.quad) = 4 /\ d.overlay = "href" /\ ~\E e \in s.dir : e.name = d.href) =>
           /\ s.status = "failed"
           /\ s.reason = "Image file not found"
           /\ NoRasterWork(s)
           /\ Count(failed_list, s.base) >= 1

\* conversions of a descriptor with 3 tuples and of one with a missing image
\* have both failed
C6_Witness ==
  /\ \E i \in 1..Len(console) :
       CountChecked(console[i]) /\ Len(CornerQuad(console[i])) = 3
         /\ console[i].status = "failed"
  /\ \E i \in 1..Len(console) :
       CountChecked(console[i]) /\ Len(CornerQuad(console[i])) = 4
         /\ console[i].reason = "Image file not found"

\* ---------------------------------------------------------------- C7
\* the conversion that returned last parsed a well-formed descriptor without
\* the quad element
LastHadNoQuad ==
  /\ console # <<>>
  /\ Last.kml # {}
  /\ LET d == DescOf(CHOOSE k \in Last.kml : TRUE) IN d.wellformed /\ ~d.hasQuad

\* C7: a conversion whose descriptor has no quad element fails with "No
\* LatLonQuad found"; if <base>_with_gcps.tif did not exist when it started
\* (<base>.tif did not, or the archive would have been skipped), neither file
\* exists when it ends.
C7_NoQuadLeavesNothing ==
  LastHadNoQuad =>
    /\ Last.status = "failed"
    /\ Last.reason = "No LatLonQuad found"
    /\ failed_list # <<>>
    /\ failed_list[Len(failed_list)] = Last.base
    /\ ~Last.had_gcp_file =>
         /\ ~\E t \in out_files : t.base = Last.base
         /\ ~\E t \in gcp_files : t.base = Last.base

\* a conversion of a descriptor without quad has just failed, no intermediate
\* file having existed before
C7_Witness == LastHadNoQuad /\ ~Last.had_gcp_file /\ Last.status = "failed"

\* ---------------------------------------------------------------- C8
\* a run of the script ends in this step
RunEnds == pc' = "exited" /\ runs' >= 1 /\ (pc # "exited" \/ runs' # runs)

\* the names are in ascending code point order without repetition and are the
\* names of the list
SortedDedupOf(names, list) ==
  /\ \A i, j \in 1..Len(names) : i < j => CodePoint(names[i]) < CodePoint(names[j])
  /\ {names[i] : i \in 1..Len(names)} = {list[i] : i \in 1..Len(list)}

\* the log has grown by one section that lists the names
AppendedSection(names) ==
  /\ Len(log') = Len(log) + Len(names) + 3
  /\ \A i \in 1..Len(log) : log'[i] = log[i]
  /\ log'[Len(log) + 1].kind = "blank"
  /\ log'[Len(log) + 2].kind = "header"
  /\ log'[Len(log) + 2].ts = runs'
  /\ \A i \in 1..Len(names) :
       log'[Len(log) + 2 + i].kind = "name" /\ log'[Len(log) + 2 + i].text = names[i]
  /\ log'[Len(log')].kind = "blank"

\* the names of the run's successes, sorted and deduplicated
RunNames == CHOOSE names \in UNION {[1..n -> Bases] : n \in 0..Cardinality(Bases)} :
              SortedDedupOf(names, success_list')

C9_FailedLeavesNoOutput ==
  (console # <<>> /\ Last.status = "failed")
    => ~\E t \in out_files : t.base = Last.base

\* ---------------------------------------------------------------- C10
\* C10: the working directory that a conversion lists holds only files
\* extracted from the archive being converted, and so does the descriptor it
\* parses.
C10_WorkingAreaOwnMembersOnly ==
  \A i \in 1..Len(console) :
    Has(console[i].calls, "listdir") =>
      /\ \A e \in console[i].dir : e.origin = console[i].file
      /\ \A k \in console[i].kml : k.origin = console[i].file
====
